---- MODULE Spec2Model ----
(***************************************************************************)
(* User registration (registerUser): one external identity in the identity *)
(* provider and one profile record in the user table, linked by id.        *)
(* Each registration is a process; one action per awaited adapter call,    *)
(* made of the call's effect and the synchronous continuation that runs    *)
(* until the next await.                                                   *)
(***************************************************************************)
EXTENDS Integers, Sequences, FiniteSets, TLC

\* ---- bounds ----
NumProcs == 2
NumSubs == 2
NumCodes == 2

Procs == 1..NumProcs
\* subject identifiers the provider can assign
Subs == {"sub-" \o ToString(i) : i \in 1..NumSubs}
\* values getNanoId() can return
Codes == {"code-" \o ToString(i) : i \in 1..NumCodes}

\* JavaScript `undefined` for a string-typed slot
Undefined == "<undefined>"
Passwords == {"p"}
RepeatPasswords == {"p", "q"}
\* strings that are normalised are sequences of characters
Names == { <<" ", "J", " ", " ", "D", " ">> }
Emails == { <<"j", "@", "x", " ">> }
Inputs == [name : Names, email : Emails,
           password : Passwords, repeatPassword : RepeatPasswords]
NoInput == [name |-> <<>>, email |-> <<>>,
            password |-> Undefined, repeatPassword |-> Undefined]
NoUser == [id |-> Undefined, name |-> <<>>, email |-> <<>>,
           activationCode |-> Undefined, role |-> Undefined, status |-> Undefined]
NoCognitoUser == [Attributes |-> <<>>]

VARIABLES
  pc,            \* per registration: the adapter call it awaits, or idle/done/failed
  input,         \* per registration: the UserCreateInput it was called with
  cognitoUser,   \* per registration: UserType returned by registerCognitoUser
  id,            \* per registration: local `id` of registerUser
  activationCode,\* per registration: local `activationCode` of registerUser
  user,          \* per registration: the assembled User record
  returned,      \* per registration: the UserModel returned on success
  status,        \* per registration: status of the error thrown (0: none)
  err,           \* per registration: message of the error thrown
  calls,         \* per registration: adapter calls made, in order, with outcome
  identities,    \* identity provider: the identities that exist
  table,         \* profile store: the items of the users table
  writes         \* profile store: the puts that took effect, with the registration that made them

vars == <<pc, input, cognitoUser, id, activationCode, user, returned,
          status, err, calls, identities, table, writes>>

\* ---- statuses ----
PasswordMismatchStatus == 400
MissingIdStatus == 500
\* variant: the collision is reported as a client error
ActivationCodeCollisionBadRequest == PasswordMismatchStatus
ActivationCodeCollisionStatus == 500
\* variant: the id collision of the guard is reported like the one of the insert
IdCollisionBadRequest == PasswordMismatchStatus
IdCollisionStatus == 500
AlreadyExistsStatus == 400
CreateUserErrorStatus == 500
\* adapters outside this excerpt: provider and lookup failures
ProviderFailureStatus == 500
LookupFailureStatus == 500

\* ---- pure helpers ----
\* variant: the password check is missing
PasswordMismatchNever(in) == FALSE

\* if (input.password !== input.repeatPassword)
PasswordMismatch(in) == in.password # in.repeatPassword

\* collapseSpaces(str, trim): runs of white space become one space, and the
\* ends are trimmed when trim is set
RECURSIVE CollapseRuns(_)
CollapseRuns(str) ==
  IF Len(str) < 2 THEN str
  ELSE IF str[1] = " " /\ str[2] = " " THEN CollapseRuns(Tail(str))
  ELSE <<str[1]>> \o CollapseRuns(Tail(str))

TrimEnds(str) ==
  LET a == IF str # <<>> /\ str[1] = " " THEN Tail(str) ELSE str
  IN IF a # <<>> /\ a[Len(a)] = " " THEN SubSeq(a, 1, Len(a) - 1) ELSE a

collapseSpaces(str, trim) ==
  IF trim THEN TrimEnds(CollapseRuns(str)) ELSE CollapseRuns(str)

\* Attributes.find(attr => attr.Name === 'sub')?.Value
RECURSIVE FindSub(_)
FindSub(attrs) ==
  IF attrs = <<>> THEN Undefined
  ELSE IF Head(attrs).Name = "sub" THEN Head(attrs).Value
  ELSE FindSub(Tail(attrs))

\* variant: takes the first attribute instead of the one named 'sub'
getCognitoUserIdFirst(u) ==
  IF u.Attributes = <<>> THEN Undefined ELSE Head(u.Attributes).Value

getCognitoUserId(u) == FindSub(u.Attributes)

\* variant: `id === undefined` instead of `!id`
MissingIdUndefinedOnly(i) == i = Undefined

\* if (!id)
MissingId(i) == i = Undefined \/ i = ""

\* point lookups of the users table; {} is null
getUserByActivationCode(tbl, code) ==
  LET m == {r \in tbl : r.activationCode = code}
  IN IF m = {} THEN {} ELSE {CHOOSE r \in m : TRUE}

getUserById(tbl, i) ==
  LET m == {r \in tbl : r.id = i}
  IN IF m = {} THEN {} ELSE {CHOOSE r \in m : TRUE}

\* variant: the activationCode collision test is missing
ActivationCodeCollisionNever(found) == FALSE

\* if (userByActivationCode)
ActivationCodeCollision(found) == found # {}

\* variant: the id collision test is missing
IdCollisionNever(found) == FALSE

\* if (userById)
IdCollision(found) == found # {}

\* const user: User = { id, email, name, ..., activationCode, role: 'USER',
\* status: 'UNCONFIRMED', ... } with name and email normalised
NewUser(i, code, in) ==
  [id |-> i,
   name |-> collapseSpaces(in.name, TRUE),
   email |-> collapseSpaces(in.email, TRUE),
   activationCode |-> code, role |-> "USER", status |-> "UNCONFIRMED"]

\* new UserModel(user)
UserModel(u) == u

\* variant: PutItem without a ConditionExpression
ConditionExpressionNone(tbl, item) == TRUE

\* variant: the condition names the wrong attribute
ConditionExpressionOnCode(tbl, item) ==
  ~ \E r \in tbl : r.activationCode = item.activationCode

\* variant: the condition deduplicates by email
ConditionExpressionOnEmail(tbl, item) == ~ \E r \in tbl : r.email = item.email

\* ConditionExpression: 'attribute_not_exists(id)'
ConditionExpression(tbl, item) == ~ \E r \in tbl : r.id = item.id

\* PutItem: the item replaces any item with the same primary key
PutItem(tbl, item) == {r \in tbl : r.id # item.id} \cup {item}

\* outcomes of client.send(command): "ok" or the name of the error thrown
SendOutcomes(tbl, item) ==
  (IF ConditionExpression(tbl, item) THEN {"ok"}
   ELSE {"ConditionalCheckFailedException"}) \cup {"InternalServerError"}

\* variant: the error name is never recognised
CreateUserStatusAlways500(name) == CreateUserErrorStatus

\* catch (error) in createUser
CreateUserStatus(name) ==
  IF name = "ConditionalCheckFailedException" THEN AlreadyExistsStatus
  ELSE CreateUserErrorStatus

CreateUserMessage(name) ==
  IF name = "ConditionalCheckFailedException" THEN "already exists"
  ELSE "User registration error"

\* the UserType the provider returns for a new identity with subject s
UserTypes(s) ==
  { <<[Name |-> "email", Value |-> "e"], [Name |-> "sub", Value |-> s]>>,
    <<[Name |-> "email", Value |-> "e"]>>,
    <<[Name |-> "email", Value |-> "e"], [Name |-> "sub", Value |-> ""]>> }

\* ---- bookkeeping ----
Called(p, op) == \E k \in DOMAIN calls[p] : calls[p][k].op = op
Log(p, op, ok) == calls' = [calls EXCEPT ![p] = Append(@, [op |-> op, ok |-> ok])]

\* throw createError(st, msg), uncaught up to the caller of registerUser
Throw(p, st, msg) ==
  /\ pc' = [pc EXCEPT ![p] = "failed"]
  /\ status' = [status EXCEPT ![p] = st]
  /\ err' = [err EXCEPT ![p] = msg]

Goto(p, l) ==
  /\ pc' = [pc EXCEPT ![p] = l]
  /\ UNCHANGED <<status, err>>

Init ==
  /\ pc = [p \in Procs |-> "idle"]
  /\ input = [p \in Procs |-> NoInput]
  /\ cognitoUser = [p \in Procs |-> NoCognitoUser]
  /\ id = [p \in Procs |-> Undefined]
  /\ activationCode = [p \in Procs |-> Undefined]
  /\ user = [p \in Procs |-> NoUser]
  /\ returned = [p \in Procs |-> NoUser]
  /\ status = [p \in Procs |-> 0]
  /\ err = [p \in Procs |-> ""]
  /\ calls = [p \in Procs |-> <<>>]
  /\ identities = {}
  /\ table = {}
  /\ writes = {}

\* registerUser up to the first await
RegisterUser(p) ==
  /\ pc[p] = "idle"
  /\ \E in \in Inputs :
       /\ input' = [input EXCEPT ![p] = in]
       /\ IF PasswordMismatch(in)
          THEN Throw(p, PasswordMismatchStatus, "Password and repeat password must match")
          ELSE Goto(p, "createCognitoUser")
  /\ UNCHANGED <<cognitoUser, id, activationCode, user, returned, calls,
                 identities, table, writes>>

\* variant: the sub is checked as soon as the identity is created
CreateCognitoUserChecksSub(p) ==
  /\ pc[p] = "createCognitoUser"
  /\ \/ /\ Log(p, "createCognitoUser", FALSE)
        /\ Throw(p, ProviderFailureStatus, "provider error")
        /\ UNCHANGED <<cognitoUser, identities>>
     \/ \E s \in Subs : \E attrs \in UserTypes(s) :
          /\ Log(p, "createCognitoUser", TRUE)
          /\ identities' = identities \cup
               {[owner |-> p, sub |-> s, credential |-> FALSE, groups |-> {}]}
          /\ cognitoUser' = [cognitoUser EXCEPT ![p] = [Attributes |-> attrs]]
          /\ IF MissingId(getCognitoUserId([Attributes |-> attrs]))
             THEN Throw(p, MissingIdStatus, "Cognito did not return a sub/id")
             ELSE Goto(p, "setPassword")
  /\ UNCHANGED <<input, id, activationCode, user, returned, table, writes>>

\* await createCognitoUser(email, name)
CreateCognitoUser(p) ==
  /\ pc[p] = "createCognitoUser"
  /\ \/ /\ Log(p, "createCognitoUser", FALSE)
        /\ Throw(p, ProviderFailureStatus, "provider error")
        /\ UNCHANGED <<cognitoUser, identities>>
     \/ \E s \in Subs : \E attrs \in UserTypes(s) :
          /\ Log(p, "createCognitoUser", TRUE)
          /\ identities' = identities \cup
               {[owner |-> p, sub |-> s, credential |-> FALSE, groups |-> {}]}
          /\ cognitoUser' = [cognitoUser EXCEPT ![p] = [Attributes |-> attrs]]
          /\ Goto(p, "setPassword")
  /\ UNCHANGED <<input, id, activationCode, user, returned, table, writes>>

\* variant: registerCognitoUser catches the error of setPassword and goes on
SetPasswordCaught(p) ==
  /\ pc[p] = "setPassword"
  /\ \/ /\ Log(p, "setPassword", FALSE)
        /\ UNCHANGED identities
     \/ /\ Log(p, "setPassword", TRUE)
        /\ identities' = {IF i.owner = p THEN [i EXCEPT !.credential = TRUE] ELSE i
                          : i \in identities}
  /\ Goto(p, "addUserToGroups")
  /\ UNCHANGED <<input, cognitoUser, id, activationCode, user, returned, table, writes>>

\* await setPassword(email, password)
SetPassword(p) ==
  /\ pc[p] = "setPassword"
  /\ \/ /\ Log(p, "setPassword", FALSE)
        /\ Throw(p, ProviderFailureStatus, "provider error")
        /\ UNCHANGED identities
     \/ /\ Log(p, "setPassword", TRUE)
        /\ identities' = {IF i.owner = p THEN [i EXCEPT !.credential = TRUE] ELSE i
                          : i \in identities}
        /\ Goto(p, "addUserToGroups")
  /\ UNCHANGED <<input, cognitoUser, id, activationCode, user, returned, table, writes>>

\* await addUserToGroups(email, [group]); return user; getCognitoUserId;
\* getNanoId; checkCollisions up to its first await
AddUserToGroups(p) ==
  /\ pc[p] = "addUserToGroups"
  /\ \/ /\ Log(p, "addUserToGroups", FALSE)
        /\ Throw(p, ProviderFailureStatus, "provider error")
        /\ UNCHANGED <<identities, id, activationCode>>
     \/ /\ Log(p, "addUserToGroups", TRUE)
        /\ identities' = {IF i.owner = p THEN [i EXCEPT !.groups = {"USER"}] ELSE i
                          : i \in identities}
        /\ \E code \in Codes :
             LET i == getCognitoUserId(cognitoUser[p]) IN
             /\ id' = [id EXCEPT ![p] = i]
             /\ activationCode' = [activationCode EXCEPT ![p] = code]
             /\ IF MissingId(i)
                THEN Throw(p, MissingIdStatus, "Cognito did not return a sub/id")
                ELSE Goto(p, "getUserByActivationCode")
  /\ UNCHANGED <<input, cognitoUser, user, returned, table, writes>>

\* variant: checkCollisions returns after the activationCode test, the id
\* lookup is skipped
GetUserByActivationCodeOnly(p) ==
  /\ pc[p] = "getUserByActivationCode"
  /\ \/ /\ Log(p, "getUserByActivationCode", FALSE)
        /\ Throw(p, LookupFailureStatus, "store lookup error")
        /\ UNCHANGED user
     \/ /\ Log(p, "getUserByActivationCode", TRUE)
        /\ IF ActivationCodeCollision(getUserByActivationCode(table, activationCode[p]))
           THEN /\ Throw(p, ActivationCodeCollisionStatus, "activationCode collision")
                /\ UNCHANGED user
           ELSE /\ user' = [user EXCEPT ![p] = NewUser(id[p], activationCode[p], input[p])]
                /\ Goto(p, "createDynamoDbUser")
  /\ UNCHANGED <<input, cognitoUser, id, activationCode, returned,
                 identities, table, writes>>

\* await getUserByActivationCode(activationCode) and the collision test
GetUserByActivationCode(p) ==
  /\ pc[p] = "getUserByActivationCode"
  /\ \/ /\ Log(p, "getUserByActivationCode", FALSE)
        /\ Throw(p, LookupFailureStatus, "store lookup error")
     \/ /\ Log(p, "getUserByActivationCode", TRUE)
        /\ IF ActivationCodeCollision(getUserByActivationCode(table, activationCode[p]))
           THEN Throw(p, ActivationCodeCollisionStatus, "activationCode collision")
           ELSE Goto(p, "getUserById")
  /\ UNCHANGED <<input, cognitoUser, id, activationCode, user, returned,
                 identities, table, writes>>

\* await getUserById(id), the collision test, and the assembly of the record
GetUserById(p) ==
  /\ pc[p] = "getUserById"
  /\ \/ /\ Log(p, "getUserById", FALSE)
        /\ Throw(p, LookupFailureStatus, "store lookup error")
        /\ UNCHANGED user
     \/ /\ Log(p, "getUserById", TRUE)
        /\ IF IdCollision(getUserById(table, id[p]))
           THEN /\ Throw(p, IdCollisionStatus, "User id collision")
                /\ UNCHANGED user
           ELSE /\ user' = [user EXCEPT ![p] = NewUser(id[p], activationCode[p], input[p])]
                /\ Goto(p, "createDynamoDbUser")
  /\ UNCHANGED <<input, cognitoUser, id, activationCode, returned,
                 identities, table, writes>>

\* variant: createUser logs the error and does not rethrow it
CreateDynamoDbUserSwallow(p) ==
  /\ pc[p] = "createDynamoDbUser"
  /\ \E name \in SendOutcomes(table, user[p]) :
       IF name = "ok"
       THEN /\ Log(p, "createDynamoDbUser", TRUE)
            /\ table' = PutItem(table, user[p])
            /\ writes' = writes \cup {[by |-> p, item |-> user[p]]}
       ELSE /\ Log(p, "createDynamoDbUser", FALSE)
            /\ UNCHANGED <<table, writes>>
  /\ returned' = [returned EXCEPT ![p] = UserModel(user[p])]
  /\ Goto(p, "done")
  /\ UNCHANGED <<input, cognitoUser, id, activationCode, user, identities>>

\* variant: a failed insert deletes the identity again
CreateDynamoDbUserRollback(p) ==
  /\ pc[p] = "createDynamoDbUser"
  /\ \E name \in SendOutcomes(table, user[p]) :
       IF name = "ok"
       THEN /\ Log(p, "createDynamoDbUser", TRUE)
            /\ table' = PutItem(table, user[p])
            /\ writes' = writes \cup {[by |-> p, item |-> user[p]]}
            /\ returned' = [returned EXCEPT ![p] = UserModel(user[p])]
            /\ Goto(p, "done")
            /\ UNCHANGED identities
       ELSE /\ Log(p, "createDynamoDbUser", FALSE)
            /\ Throw(p, CreateUserStatus(name), CreateUserMessage(name))
            /\ identities' = {i \in identities : i.owner # p}
            /\ UNCHANGED <<table, writes, returned>>
  /\ UNCHANGED <<input, cognitoUser, id, activationCode, user>>

\* variant: a failed send is retried once
CreateDynamoDbUserRetry(p) ==
  /\ pc[p] = "createDynamoDbUser"
  /\ \E name \in SendOutcomes(table, user[p]) :
       IF name = "ok"
       THEN /\ Log(p, "createDynamoDbUser", TRUE)
            /\ table' = PutItem(table, user[p])
            /\ writes' = writes \cup {[by |-> p, item |-> user[p]]}
            /\ returned' = [returned EXCEPT ![p] = UserModel(user[p])]
            /\ Goto(p, "done")
       ELSE /\ Log(p, "createDynamoDbUser", FALSE)
            /\ IF Called(p, "createDynamoDbUser")
               THEN Throw(p, CreateUserStatus(name), CreateUserMessage(name))
               ELSE UNCHANGED <<pc, status, err>>
            /\ UNCHANGED <<table, writes, returned>>
  /\ UNCHANGED <<input, cognitoUser, id, activationCode, user, identities>>

\* variant: the put is sent without waiting and an error is thrown afterwards
CreateDynamoDbUserWriteThenFail(p) ==
  /\ pc[p] = "createDynamoDbUser"
  /\ \E name \in SendOutcomes(table, user[p]) :
       IF name = "ok"
       THEN /\ Log(p, "createDynamoDbUser", TRUE)
            /\ table' = PutItem(table, user[p])
            /\ writes' = writes \cup {[by |-> p, item |-> user[p]]}
            /\ returned' = [returned EXCEPT ![p] = UserModel(user[p])]
            /\ Goto(p, "done")
       ELSE /\ Log(p, "createDynamoDbUser", FALSE)
            /\ Throw(p, CreateUserStatus(name), CreateUserMessage(name))
            /\ IF ConditionExpression(table, user[p])
               THEN /\ table' = PutItem(table, user[p])
                    /\ writes' = writes \cup {[by |-> p, item |-> user[p]]}
               ELSE UNCHANGED <<table, writes>>
            /\ UNCHANGED returned
  /\ UNCHANGED <<input, cognitoUser, id, activationCode, user, identities>>

\* await createDynamoDbUser(user); return new UserModel(user)
CreateDynamoDbUser(p) ==
  /\ pc[p] = "createDynamoDbUser"
  /\ \E name \in SendOutcomes(table, user[p]) :
       IF name = "ok"
       THEN /\ Log(p, "createDynamoDbUser", TRUE)
            /\ table' = PutItem(table, user[p])
            /\ writes' = writes \cup {[by |-> p, item |-> user[p]]}
            /\ returned' = [returned EXCEPT ![p] = UserModel(user[p])]
            /\ Goto(p, "done")
       ELSE /\ Log(p, "createDynamoDbUser", FALSE)
            /\ Throw(p, CreateUserStatus(name), CreateUserMessage(name))
            /\ UNCHANGED <<table, writes, returned>>
  /\ UNCHANGED <<input, cognitoUser, id, activationCode, user, identities>>

Next ==
  \E p \in Procs :
    \/ RegisterUser(p)
    \/ CreateCognitoUser(p)
    \/ SetPassword(p)
    \/ AddUserToGroups(p)
    \/ GetUserByActivationCode(p)
    \/ GetUserById(p)
    \/ CreateDynamoDbUser(p)

Spec == Init /\ [][Next]_vars

\* the awaited adapter call of registration p returns or fails
Await(p) ==
  \/ CreateCognitoUser(p)
  \/ SetPassword(p)
  \/ AddUserToGroups(p)
  \/ GetUserByActivationCode(p)
  \/ GetUserById(p)
  \/ CreateDynamoDbUser(p)

\* every adapter call that is awaited eventually returns or fails
FairSpec == Spec /\ \A p \in Procs : WF_vars(Await(p))

\* ---- vocabulary of the properties ----
Terminated(p) == pc[p] \in {"done", "failed"}
CalledOk(p, op) == \E k \in DOMAIN calls[p] : calls[p][k] = [op |-> op, ok |-> TRUE]
WritesBy(p) == {w \in writes : w.by = p}
IdentitiesOf(p) == {i \in identities : i.owner = p}
ProviderOps == {"createCognitoUser", "setPassword", "addUserToGroups"}
StoreOps == {"getUserByActivationCode", "getUserById", "createDynamoDbUser"}
\* the insert of p is applied to the table in this step
InsertApplied(p) == pc[p] = "createDynamoDbUser" /\ pc'[p] = "done"
\* the provider's response carries no usable sub
LacksSub(u) ==
  ~ \E k \in DOMAIN u.Attributes :
      /\ u.Attributes[k].Name = "sub"
      /\ u.Attributes[k].Value \notin {"", Undefined}

\* C1: under every interleaving the table holds at most one record per id,
\* and no put with an id already present ever takes effect.
C1_UniqueId ==
  /\ \A r1 \in table : \A r2 \in table : r1.id = r2.id => r1 = r2
  /\ \A w1 \in writes : \A w2 \in writes : w1.item.id = w2.item.id => w1 = w2
  /\ table = {w.item : w \in writes}

\* two registrations were handed the same sub and both reached the insert
C1_Witness ==
  \E p \in Procs : \E q \in Procs \ {p} :
    /\ pc[p] = "done"
    /\ pc[q] = "failed"
    /\ Called(q, "createDynamoDbUser")
    /\ user[q].id = user[p].id

\* C2 (as stated): when a successful registration's insert is applied, no
\* stored record has its id and no stored record has its activationCode.
C2_AbsentAtInsert ==
  [][\A p \in Procs : InsertApplied(p) =>
       /\ ~ \E r \in table : r.id = user[p].id
       /\ ~ \E r \in table : r.activationCode = user[p].activationCode]_vars

\* C2 (amended): when a successful registration's insert is applied no stored
\* record has its id, and when its guard's activation-code lookup returned no
\* stored record had its activationCode.
C2_AbsentAtGuard ==
  [][\A p \in Procs :
       /\ InsertApplied(p) => ~ \E r \in table : r.id = user[p].id
       /\ (pc[p] = "getUserByActivationCode" /\ pc'[p] = "getUserById")
            => ~ \E r \in table : r.activationCode = activationCode[p]]_vars

\* two successful registrations left records sharing an activationCode
C2_Witness ==
  \E p \in Procs : \E q \in Procs \ {p} :
    /\ pc[p] = "done" /\ pc[q] = "done"
    /\ user[p].id # user[q].id
    /\ user[p].activationCode = user[q].activationCode
    /\ {user[p], user[q]} \subseteq table

\* C3: a registration whose passwords differ fails with 400, calls no adapter
\* and leaves the provider and the store as they were.
C3_MismatchInv ==
  \A p \in Procs :
    (pc[p] # "idle" /\ input[p].password # input[p].repeatPassword) =>
      /\ pc[p] = "failed"
      /\ status[p] = 400
      /\ calls[p] = <<>>
      /\ IdentitiesOf(p) = {}
      /\ WritesBy(p) = {}

C3_PasswordMismatch ==
  /\ []C3_MismatchInv
  /\ [][\A p \in Procs :
          (pc[p] = "idle" /\ pc'[p] # "idle"
             /\ input'[p].password # input'[p].repeatPassword)
          => UNCHANGED <<identities, table, writes>>]_vars

\* a mismatching registration has failed while another one has written a record
C3_Witness ==
  \E p \in Procs :
    /\ pc[p] = "failed"
    /\ input[p].password # input[p].repeatPassword
    /\ table # {}

\* C4: when the identity returned by the provider lacks a sub (or has an empty
\* one) the registration never queries or writes the store, never succeeds,
\* and once the provider steps are through it has failed with 500.
C4_MissingSub ==
  \A p \in Procs :
    (CalledOk(p, "createCognitoUser") /\ LacksSub(cognitoUser[p])) =>
      /\ \A op \in StoreOps : ~ Called(p, op)
      /\ WritesBy(p) = {}
      /\ pc[p] \in {"setPassword", "addUserToGroups", "failed"}
      /\ CalledOk(p, "addUserToGroups") =>
           /\ pc[p] = "failed"
           /\ status[p] = 500
           /\ err[p] = "Cognito did not return a sub/id"

\* a registration failed on an empty sub after all provider steps succeeded
C4_Witness ==
  \E p \in Procs :
    /\ pc[p] = "failed"
    /\ err[p] = "Cognito did not return a sub/id"
    /\ id[p] = ""
    /\ CalledOk(p, "addUserToGroups")

\* C5: when the activation-code lookup returns and the table holds a record
\* with the candidate activationCode, the registration fails with 500
\* (activationCode collision), and it never looks up the id nor inserts.
C5_CodeCollisionInv ==
  \A p \in Procs :
    err[p] = "activationCode collision" =>
      /\ pc[p] = "failed"
      /\ status[p] = 500
      /\ ~ Called(p, "getUserById")
      /\ ~ Called(p, "createDynamoDbUser")
      /\ WritesBy(p) = {}

C5_ActivationCodeCollision ==
  /\ []C5_CodeCollisionInv
  /\ [][\A p \in Procs :
          (/\ pc[p] = "getUserByActivationCode"
           /\ calls'[p] = Append(calls[p], [op |-> "getUserByActivationCode", ok |-> TRUE])
           /\ \E r \in table : r.activationCode = activationCode[p])
          => /\ pc'[p] = "failed"
             /\ status'[p] = 500
             /\ err'[p] = "activationCode collision"]_vars

C5_Witness ==
  \E p \in Procs :
    /\ err[p] = "activationCode collision"
    /\ \E r \in table : r.activationCode = activationCode[p] /\ r.id # id[p]

\* C6: when the id lookup returns and the table holds a record with the
\* candidate id, the registration fails with 500 (id collision) and never
\* inserts.
C6_IdCollisionInv ==
  \A p \in Procs :
    err[p] = "User id collision" =>
      /\ pc[p] = "failed"
      /\ status[p] = 500
      /\ ~ Called(p, "createDynamoDbUser")
      /\ WritesBy(p) = {}

C6_IdCollision ==
  /\ []C6_IdCollisionInv
  /\ [][\A p \in Procs :
          (/\ pc[p] = "getUserById"
           /\ calls'[p] = Append(calls[p], [op |-> "getUserById", ok |-> TRUE])
           /\ \E r \in table : r.id = id[p])
          => /\ pc'[p] = "failed"
             /\ status'[p] = 500
             /\ err'[p] = "User id collision"]_vars

C6_Witness ==
  \E p \in Procs :
    /\ err[p] = "User id collision"
    /\ \E r \in table : r.id = id[p]

\* C7 (as stated): of two registrations with the same candidate id that are
\* both past the guard and before their insert, the first insert succeeds and
\* the second fails with 400 'already exists' without touching the record.
C7_ExactlyOneWins ==
  [][\A p \in Procs : \A q \in Procs \ {p} :
       (/\ pc[p] = "createDynamoDbUser"
        /\ pc'[p] # pc[p]
        /\ user[q].id = user[p].id)
       => /\ pc[q] = "createDynamoDbUser" => pc'[p] = "done"
          /\ pc[q] = "done" =>
               /\ pc'[p] = "failed"
               /\ status'[p] = 400
               /\ table' = table]_vars

\* C7 (amended): of the registrations with the same candidate id that passed
\* the guard at most one insert succeeds; an insert attempted when the id is
\* stored takes no effect and fails with 400 'already exists', or with 500
\* when the store reports another error; an insert attempted when the id is
\* not stored succeeds or fails with 500; the stored record is the winner's.
C7_RaceInv ==
  \A p \in Procs : \A q \in Procs \ {p} :
    (user[p].id = user[q].id /\ user[p] # NoUser /\ pc[p] = "done") =>
      /\ pc[q] # "done"
      /\ user[p] \in table
      /\ \A r \in table : r.id = user[p].id => r = user[p]
      /\ Called(q, "createDynamoDbUser") =>
           /\ pc[q] = "failed"
           /\ WritesBy(q) = {}

C7_AtMostOneWins ==
  /\ []C7_RaceInv
  /\ [][\A p \in Procs :
          (pc[p] = "createDynamoDbUser" /\ pc'[p] # pc[p]) =>
            IF \E r \in table : r.id = user[p].id
            THEN /\ pc'[p] = "failed"
                 /\ table' = table
                 /\ writes' = writes
                 /\ \/ status'[p] = 400 /\ err'[p] = "already exists"
                    \/ status'[p] = 500 /\ err'[p] = "User registration error"
            ELSE \/ pc'[p] = "done" /\ user[p] \in table'
                 \/ /\ pc'[p] = "failed"
                    /\ status'[p] = 500
                    /\ err'[p] = "User registration error"
                    /\ table' = table]_vars

\* both passed the guard with the same id and different activation codes; one
\* won, the other got 400 and the winner's record is the one stored
C7_Witness ==
  \E p \in Procs : \E q \in Procs \ {p} :
    /\ pc[p] = "done"
    /\ pc[q] = "failed" /\ status[q] = 400 /\ err[q] = "already exists"
    /\ user[q].id = user[p].id
    /\ user[q].activationCode # user[p].activationCode
    /\ user[p] \in table /\ user[q] \notin table

\* C8: a registration that succeeded created exactly one identity and added
\* exactly one record, and the id of the record and of the returned model is
\* the sub of the identity this registration created.
C8_SuccessLinked ==
  \A p \in Procs :
    pc[p] = "done" =>
      /\ Cardinality(IdentitiesOf(p)) = 1
      /\ Cardinality({k \in DOMAIN calls[p] :
                        calls[p][k] = [op |-> "createCognitoUser", ok |-> TRUE]}) = 1
      /\ Cardinality(WritesBy(p)) = 1
      /\ \A i \in IdentitiesOf(p) :
           /\ returned[p].id = i.sub
           /\ \A w \in WritesBy(p) : w.item.id = i.sub
           /\ \E r \in table : r.id = i.sub /\ r.activationCode = returned[p].activationCode

\* a registration succeeded on a response that lists the sub after another attribute
C8_Witness ==
  \E p \in Procs :
    /\ pc[p] = "done"
    /\ Len(cognitoUser[p].Attributes) = 2
    /\ cognitoUser[p].Attributes[2].Name = "sub"
    /\ returned[p].id = cognitoUser[p].Attributes[2].Value

\* C9: every stored record has the sub of an existing identity as id, and an
\* identity without a record belongs to a registration that is in flight or
\* has failed with a surfaced status, never to one that succeeded.
C9_RecordIffIdentity ==
  /\ \A r \in table : \E i \in identities : i.sub = r.id
  /\ \A i \in identities :
       (~ \E r \in table : r.id = i.sub) =>
         /\ pc[i.owner] \notin {"idle", "done"}
         /\ pc[i.owner] = "failed" => status[i.owner] \in {400, 500}

\* an orphaned identity of a failed registration next to a linked one
C9_Witness ==
  \E i \in identities : \E j \in identities :
    /\ pc[i.owner] = "failed"
    /\ ~ \E r \in table : r.id = i.sub
    /\ pc[j.owner] = "done"
    /\ \E r \in table : r.id = j.sub

\* C10: a registration that fails after its identity was created ends in
\* failure with the identity still in the provider and no record written by
\* it; no step ever removes an identity.
C10_OrphanInv ==
  \A p \in Procs :
    (pc[p] = "failed" /\ CalledOk(p, "createCognitoUser")) =>
      /\ Cardinality(IdentitiesOf(p)) = 1
      /\ WritesBy(p) = {}
      /\ status[p] \in {400, 500}

C10_NoRollback ==
  /\ []C10_OrphanInv
  /\ [][\A i \in identities : \E j \in identities' :
          j.owner = i.owner /\ j.sub = i.sub]_vars

\* an insert failed for a store error, leaving the identity with no record of its id
C10_Witness ==
  \E p \in Procs :
    /\ pc[p] = "failed"
    /\ Called(p, "createDynamoDbUser")
    /\ IdentitiesOf(p) # {}
    /\ \A r \in table : r.id # user[p].id

\* C11: the store puts no condition on the activationCode: an insert whose id
\* is not stored can succeed whatever activation codes are stored, so two
\* registrations with distinct ids and one code that both passed the guard
\* both insert.
C11_NoConditionOnCode ==
  \A p \in Procs :
    (pc[p] = "createDynamoDbUser" /\ ~ \E r \in table : r.id = user[p].id)
      => "ok" \in SendOutcomes(table, user[p])

\* both lookups of both registrations returned absent, both inserts took
\* effect, and the table holds two records with one activationCode
C11_Witness ==
  \E p \in Procs : \E q \in Procs \ {p} :
    /\ pc[p] = "done" /\ pc[q] = "done"
    /\ id[p] # id[q]
    /\ activationCode[p] = activationCode[q]
    /\ CalledOk(p, "getUserByActivationCode") /\ CalledOk(q, "getUserByActivationCode")
    /\ Cardinality({r \in table : r.activationCode = activationCode[p]}) = 2
    /\ Cardinality(WritesBy(p) \cup WritesBy(q)) = 2

\* C14: registration does not deduplicate by email or name: when no adapter
\* call fails, a candidate id and activationCode that are not stored are
\* enough for the guard to pass and the insert to succeed, whatever emails
\* and names are stored; the stored record carries the normalised email and
\* name of the request.
C14_StoredAsRequested ==
  \A p \in Procs :
    pc[p] = "done" =>
      \E r \in table :
        /\ r.id = id[p]
        /\ r.email = TrimEnds(CollapseRuns(input[p].email))
        /\ r.name = TrimEnds(CollapseRuns(input[p].name))

C14_NoDeduplication ==
  /\ []C14_StoredAsRequested
  /\ [][\A p \in Procs :
          /\ (/\ pc[p] = "getUserByActivationCode"
              /\ calls'[p] = Append(calls[p], [op |-> "getUserByActivationCode", ok |-> TRUE])
              /\ ~ \E r \in table : r.activationCode = activationCode[p])
             => pc'[p] = "getUserById"
          /\ (/\ pc[p] = "getUserById"
              /\ calls'[p] = Append(calls[p], [op |-> "getUserById", ok |-> TRUE])
              /\ ~ \E r \in table : r.id = id[p])
             => pc'[p] = "createDynamoDbUser"
          /\ (/\ pc[p] = "createDynamoDbUser"
              /\ pc'[p] # pc[p]
              /\ ~ \E r \in table : r.id = user[p].id)
             => \/ pc'[p] = "done"
                \/ err'[p] = "User registration error"]_vars

\* the same request registered twice, with a new sub and another activation
\* code the second time: two records with one email and name
C14_Witness ==
  \E p \in Procs : \E q \in Procs \ {p} :
    /\ pc[p] = "done" /\ pc[q] = "done"
    /\ input[p] = input[q]
    /\ returned[p].id # returned[q].id
    /\ returned[p].activationCode # returned[q].activationCode
    /\ returned[p].email = returned[q].email
    /\ returned[p].name = returned[q].name
    /\ returned[p].name = <<"J", " ", "D">>
    /\ {returned[p], returned[q]} \subseteq table

\* C12: when createIdentity, setCredential or assignToGroups fails, the
\* registration fails with the adapter's own error, that call is its last
\* adapter call, and it makes no store lookup and no insert.
C12_ProviderFailurePropagates ==
  \A p \in Procs : \A k \in DOMAIN calls[p] :
    (calls[p][k].op \in ProviderOps /\ ~ calls[p][k].ok) =>
      /\ k = Len(calls[p])
      /\ pc[p] = "failed"
      /\ status[p] = ProviderFailureStatus
      /\ err[p] = "provider error"
      /\ \A op \in StoreOps : ~ Called(p, op)
      /\ WritesBy(p) = {}

\* setCredential failed on an identity that had been created
C12_Witness ==
  \E p \in Procs :
    /\ calls[p] = << [op |-> "createCognitoUser", ok |-> TRUE],
                     [op |-> "setPassword", ok |-> FALSE] >>
    /\ pc[p] = "failed"
    /\ \E i \in IdentitiesOf(p) : ~ i.credential

\* C13: a failed registration surfaces 400 or 500; 400 exactly for a password
\* mismatch and for an insert whose condition was violated, 500 for every
\* provider failure, store failure and consistency failure.
C13_StatusTaxonomy ==
  \A p \in Procs :
    pc[p] = "failed" =>
      LET n == Len(calls[p])
          mismatch == n = 0 /\ input[p].password # input[p].repeatPassword
          exists == /\ n > 0
                    /\ calls[p][n] = [op |-> "createDynamoDbUser", ok |-> FALSE]
                    /\ err[p] = "already exists"
      IN /\ status[p] \in {400, 500}
         /\ status[p] = 400 <=> (mismatch \/ exists)
         /\ n = 0 => mismatch
         /\ err[p] = "already exists" =>
              /\ exists
              /\ \E r \in table : r.id = user[p].id
         /\ err[p] \in {"provider error", "store lookup error", "User registration error",
                        "Cognito did not return a sub/id", "activationCode collision",
                        "User id collision"} => status[p] = 500

\* one registration failed with 400 on a mismatch, another with 500 on a store
\* error of the insert
C13_Witness ==
  \E p \in Procs : \E q \in Procs \ {p} :
    /\ pc[p] = "failed" /\ status[p] = 400 /\ calls[p] = <<>>
    /\ pc[q] = "failed" /\ status[q] = 500 /\ err[q] = "User registration error"

\* C15: the adapter calls of a registration are a prefix of the fixed order
\* createIdentity, setCredential, assignToGroups, activation-code lookup, id
\* lookup, insert, each made only after the one before succeeded, after the
\* password check and with the sub extracted before the lookups; the insert
\* is reached only by the step in which the id lookup returned absent, after
\* the activation-code lookup returned absent.
StepOrder ==
  << "createCognitoUser", "setPassword", "addUserToGroups",
     "getUserByActivationCode", "getUserById", "createDynamoDbUser" >>

C15_OrderInv ==
  \A p \in Procs :
    /\ Len(calls[p]) <= Len(StepOrder)
    /\ \A k \in DOMAIN calls[p] :
         /\ calls[p][k].op = StepOrder[k]
         /\ k < Len(calls[p]) => calls[p][k].ok
    /\ calls[p] # <<>> => input[p].password = input[p].repeatPassword
    /\ pc[p] \notin {"idle", "done", "failed"} =>
         /\ pc[p] = StepOrder[Len(calls[p]) + 1]
         /\ \A k \in DOMAIN calls[p] : calls[p][k].ok
    /\ pc[p] = "done" =>
         /\ Len(calls[p]) = Len(StepOrder)
         /\ \A k \in DOMAIN calls[p] : calls[p][k].ok
    /\ Called(p, "getUserByActivationCode") =>
         \E i \in IdentitiesOf(p) : id[p] = i.sub

C15_FixedOrder ==
  /\ []C15_OrderInv
  /\ [][\A p \in Procs :
          /\ pc'[p] = "getUserById" /\ pc[p] # "getUserById" =>
               /\ pc[p] = "getUserByActivationCode"
               /\ ~ \E r \in table : r.activationCode = activationCode[p]
          /\ pc'[p] = "createDynamoDbUser" /\ pc[p] # "createDynamoDbUser" =>
               /\ pc[p] = "getUserById"
               /\ ~ \E r \in table : r.id = id[p]]_vars

\* a registration went through all six calls while another one had stored a record
C15_Witness ==
  \E p \in Procs : \E q \in Procs \ {p} :
    /\ pc[p] = "done" /\ pc[q] = "done"
    /\ Len(calls[p]) = 6
    /\ Cardinality(table) = 2

\* C16: the table changes only by a successful insert adding one record whose
\* id was not stored; lookups and failed steps leave it as it is, and a stored
\* record is never modified, replaced or removed.
C16_OnlyInsertAdds ==
  [][\/ table' = table
     \/ \E p \in Procs :
          /\ InsertApplied(p)
          /\ ~ \E r \in table : r.id = user[p].id
          /\ table' = table \cup {user[p]}
          /\ Cardinality(table') = Cardinality(table) + 1]_vars

\* a registration with the id of a stored record, and another activation
\* code, went through its insert and the stored record is as it was
C16_Witness ==
  \E p \in Procs : \E q \in Procs \ {p} :
    /\ pc[p] = "done"
    /\ Called(q, "createDynamoDbUser") /\ pc[q] = "failed"
    /\ user[q].id = user[p].id /\ user[q] # user[p]
    /\ table = {user[p]}

\* C17: when every awaited adapter call eventually returns or fails, a
\* started registration eventually ends in success or failure, and no
\* registration makes the same adapter call twice.
C17_NoRepeatedCall ==
  \A p \in Procs : \A k1 \in DOMAIN calls[p] : \A k2 \in DOMAIN calls[p] :
    calls[p][k1].op = calls[p][k2].op => k1 = k2

C17_TerminatesWithoutRetry ==
  /\ []C17_NoRepeatedCall
  /\ \A p \in Procs : (pc[p] # "idle") ~> Terminated(p)

\* an insert failed on a store error and the registration ended there
C17_Witness ==
  \E p \in Procs :
    /\ pc[p] = "failed"
    /\ Len(calls[p]) = 6
    /\ calls[p][6] = [op |-> "createDynamoDbUser", ok |-> FALSE]
    /\ err[p] = "User registration error"

\* C18: a registration that ends in failure has put no record, and no step of
\* a registration other than its successful insert changes the table: the
\* store is as if the failed registration had never run.
C18_FailedWroteNothing ==
  \A p \in Procs :
    pc[p] = "failed" =>
      /\ WritesBy(p) = {}
      /\ table = {w.item : w \in {x \in writes : pc[x.by] = "done"}}

C18_FailureLeavesStore ==
  /\ []C18_FailedWroteNothing
  /\ [][\A p \in Procs :
          (pc'[p] # pc[p] /\ pc'[p] # "done") =>
            /\ table' = table
            /\ writes' = writes]_vars

\* a registration failed at its insert on a store error while the table held
\* the record of another one, and the table holds nothing else
C18_Witness ==
  \E p \in Procs : \E q \in Procs \ {p} :
    /\ pc[p] = "failed"
    /\ Len(calls[p]) = 6
    /\ calls[p][6] = [op |-> "createDynamoDbUser", ok |-> FALSE]
    /\ err[p] = "User registration error"
    /\ user[p].id # user[q].id
    /\ table = {user[q]}

\* C19: an insert fails with 400 'already exists' only when a record with the
\* id is stored by then, put by another registration, and that put took
\* effect after this registration's id lookup, which saw the id absent; an id
\* that is stored when the id lookup returns gives 500 and no insert attempt.
C19_CollisionInv ==
  \A p \in Procs :
    /\ err[p] = "already exists" =>
         /\ status[p] = 400
         /\ CalledOk(p, "getUserById")
         /\ \E w \in writes : w.by # p /\ w.item.id = user[p].id
    /\ err[p] = "User id collision" =>
         /\ status[p] = 500
         /\ ~ Called(p, "createDynamoDbUser")

C19_InsertTimeCollision ==
  /\ []C19_CollisionInv
  /\ [][\A p \in Procs :
          /\ (pc[p] = "getUserById" /\ pc'[p] = "createDynamoDbUser")
               => ~ \E r \in table : r.id = id[p]
          /\ (/\ pc[p] = "getUserById"
              /\ calls'[p] = Append(calls[p], [op |-> "getUserById", ok |-> TRUE])
              /\ \E r \in table : r.id = id[p])
               => /\ pc'[p] = "failed"
                  /\ status'[p] = 500
                  /\ err'[p] # "already exists"
          /\ (pc[p] = "createDynamoDbUser" /\ err'[p] = "already exists")
               => \E r \in table : r.id = user[p].id]_vars

\* a registration whose id lookup saw the id absent got 400 at its insert for
\* the id another one had stored in between
C19_Witness ==
  \E p \in Procs : \E q \in Procs \ {p} :
    /\ pc[q] = "done"
    /\ id[p] = id[q]
    /\ CalledOk(p, "getUserById")
    /\ err[p] = "already exists" /\ status[p] = 400
    /\ [by |-> q, item |-> user[q]] \in writes

\* C20: a registration that fails with 'did not return a sub/id' has made all
\* three provider calls successfully: its identity exists with the credential
\* set and the group assigned.
C20_MissingSubAfterProvider ==
  \A p \in Procs :
    err[p] = "Cognito did not return a sub/id" =>
      /\ pc[p] = "failed"
      /\ calls[p] = << [op |-> "createCognitoUser", ok |-> TRUE],
                       [op |-> "setPassword", ok |-> TRUE],
                       [op |-> "addUserToGroups", ok |-> TRUE] >>
      /\ \E i \in identities :
           i.owner = p /\ i.credential /\ i.groups = {"USER"}

\* the response had no sub attribute at all and the identity is complete
C20_Witness ==
  \E p \in Procs :
    /\ err[p] = "Cognito did not return a sub/id"
    /\ id[p] = Undefined
    /\ \E i \in IdentitiesOf(p) : i.credential /\ i.groups # {}
====
